---------------------------- MODULE Spec2Model ----------------------------
(***************************************************************************)
(* Model of src/main.go: the task-dispatch server.                          *)
(*                                                                         *)
(*   POST /run/  -> handleRun   : sends `count` copies of a task on the    *)
(*                                buffered channel taskQueue, holding      *)
(*                                messagesMu for the whole loop            *)
(*   worker()                   : for task := range taskQueue, wg.Add(1),  *)
(*                                go func(){defer wg.Done();               *)
(*                                          processTask; counterChan <- 1} *)
(*   counter()                  : for inc := range counterChan,            *)
(*                                taskCounter += inc                       *)
(*   GET /wait/  -> waitHandler : wg.Wait(), then 200                      *)
(*   GET /count/ -> countHandler: reads taskCounter                        *)
(*                                                                         *)
(* sync.WaitGroup is modelled by what the library does: a counter v, a     *)
(* waiter count w and a semaphore.  Add(delta) adds to v and panics        *)
(* ("WaitGroup misuse: Add called concurrently with Wait") when it raises  *)
(* v from zero while w # 0; the Add(-1) of Done that brings v to zero      *)
(* with w # 0 resets w and releases w semaphore permits in a second step;  *)
(* Wait returns at once when it loads v = 0, else registers as a waiter,   *)
(* sleeps on the semaphore and, once woken, panics ("WaitGroup is reused   *)
(* before previous Wait has returned") unless the state is zero.  A panic  *)
(* in an HTTP handler is recovered by net/http (the request gets no        *)
(* response); a panic in a worker goroutine ends the process.              *)
(*                                                                         *)
(* countHandler reads taskCounter without synchronisation while counter()  *)
(* writes it.  The variable is one machine word with a single writer, so   *)
(* the read is a load taken at a moment the scheduler chooses: it returns  *)
(* a value counter() has stored, before or after any pending increment.    *)
(*                                                                         *)
(* Tasks are values in the program; the model numbers them in enqueue      *)
(* order (1, 2, ...) so that each copy can be followed.                    *)
(***************************************************************************)
EXTENDS Integers, Sequences, FiniteSets, TLC

\* capacity of taskQueue (1000 in the program, scaled down)
QueueCap == 2
\* number of worker goroutines (10000 in the program, scaled down)
NumWorkers == 2
\* number of HTTP requests the environment issues, of all kinds together
MaxRequests == 3
\* number of tasks all /run/ requests together ask for
MaxTasks == 3
\* the same two limits for a burst: fewer requests, and a /run/ asks for
\* BurstTasks tasks at once
BurstRequests == 2
BurstTasks == 5
\* the same two limits when the tasks of the requests differ
ExecRequests == 2
ExecTasks == 3
\* the same two limits when /messages/ requests are issued as well
StoreRequests == 3
StoreTasks == 3
\* the ids a GET or DELETE /messages/{id} may name, and a POST body may carry
MsgIds == 2

Workers == 1..NumWorkers

\* the fields of a Task that processTask looks at; the zero Task has an empty
\* URL and no sleep
ZeroTask == [url |-> "", sleep |-> 0]
\* a Task that only sleeps
NapTask == [url |-> "", sleep |-> 1]
\* a Task with a URL to fetch and a sleep
BusyTask == [url |-> "u", sleep |-> 1]
\* the requests of each kind are numbered in their order of arrival
Max(a, b) == IF a >= b THEN a ELSE b
MostRequests == Max(Max(MaxRequests, BurstRequests), Max(ExecRequests, StoreRequests))
MostTasks == Max(Max(MaxTasks, BurstTasks), Max(ExecTasks, StoreTasks))
Runs == 1..MostRequests
Waits == 1..MostRequests
Msgs == 1..MostRequests
Tasks == 1..MostTasks

\* the texts a POST /messages/ body may carry
Texts == {"a", "b"}
\* no request, no response
NoReq == [op |-> "none", id |-> 0, text |-> ""]
NoResp == [op |-> "none", id |-> 0, code |-> 0, body |-> NoReq]

VARIABLES
  limits,       \* what the environment asks for at most: [requests, tasks,
                \* counts (the count values a /run/ may carry), kinds (the
                \* Task values the requests carry)]; never changes
  messagesMu,   \* 0 when unlocked, r when /run/ request r holds it, -m when
                \* /messages/ request m holds it
  messages,     \* the map messages: id -> record [id, text]
  nextID,       \* the global nextID
  msgPc,        \* per /messages/ request: "idle", "lock", "in", "done"
  msgReq,       \* per /messages/ request in progress: method, id, text
  lastResp,     \* the latest answer of a /messages/ handler
  created,      \* history: the records POST has stored, in order
  deleted,      \* history: the ids DELETE has removed
  taskQueue,    \* the buffered channel: sequence of task numbers
  runPc,        \* per /run/ request: "idle","lock","loop","blocked","done","bad"
  runCount,     \* request.Count of each /run/ request
  runI,         \* loop variable i of handleRun
  runTask,      \* request.Task of each /run/ request
  tStage,       \* per task: where it is in its life
  tTask,        \* per task: the Task value that was enqueued
  tFetch,       \* per task: how http.Get ended in processTask, "none" when
                \* it was not called
  wPc,          \* per worker: "range", "add", "go"
  wTask,        \* the task a worker holds (0 when none)
  wgV,          \* WaitGroup counter
  wgW,          \* WaitGroup waiter count
  wgSema,       \* WaitGroup semaphore permits
  cPc,          \* counter goroutine: "range" or "add"
  cInc,         \* the value counter() received
  taskCounter,  \* the global taskCounter
  waitPc,       \* per /wait/ request: "idle","wait","sem","woke","ok","panic"
  waitEnq,      \* history: while a wait is in progress, the number of tasks
                \* that had been enqueued when it was called
  waitOver,     \* history: the /run/ requests already answered (202 or 400)
                \* when the wait was called
  countLog,     \* history: the values the /count/ reads returned, in order
  hist,         \* history: per task, how often each event happened
  crashed       \* the process died of a panic outside an HTTP handler;
                \* nothing runs any more

vars == <<limits, messagesMu, messages, nextID, msgPc, msgReq, lastResp, created,
          deleted, taskQueue, runPc, runCount, runI, runTask, tStage,
          tTask, tFetch, wPc, wTask,
          wgV, wgW, wgSema, cPc, cInc, taskCounter, waitPc, waitEnq,
          waitOver, countLog, hist, crashed>>

runVars == <<limits, messagesMu, runPc, runCount, runI, runTask>>
workerVars == <<wPc, wTask>>
wgVars == <<wgV, wgW, wgSema>>
counterVars == <<cPc, cInc, taskCounter>>
waitVars == <<waitPc, waitEnq, waitOver>>
storeVars == <<messages, nextID, msgPc, msgReq, lastResp, created, deleted>>

NoEvents == [deq |-> 0, add |-> 0, launch |-> 0, exec |-> 0, sig |-> 0, done |-> 0]

\* number of tasks whose enqueue has completed
NumEnqueued == Cardinality({t \in Tasks : tStage[t] # "none"})

\* the state of the process once main() has started counter() and the workers
Constructed ==
  /\ messagesMu = 0
  /\ messages = <<>>
  /\ nextID = 1
  /\ msgPc = [m \in Msgs |-> "idle"]
  /\ msgReq = [m \in Msgs |-> NoReq]
  /\ lastResp = NoResp
  /\ created = <<>>
  /\ deleted = {}
  /\ taskQueue = <<>>
  /\ runPc = [r \in Runs |-> "idle"]
  /\ runCount = [r \in Runs |-> 0]
  /\ runI = [r \in Runs |-> 0]
  /\ runTask = [r \in Runs |-> ZeroTask]
  /\ tStage = [t \in Tasks |-> "none"]
  /\ tTask = [t \in Tasks |-> ZeroTask]
  /\ tFetch = [t \in Tasks |-> "none"]
  /\ wPc = [k \in Workers |-> "range"]
  /\ wTask = [k \in Workers |-> 0]
  /\ wgV = 0
  /\ wgW = 0
  /\ wgSema = 0
  /\ cPc = "range"
  /\ cInc = 0
  /\ taskCounter = 0
  /\ waitPc = [i \in Waits |-> "idle"]
  /\ waitEnq = [i \in Waits |-> 0]
  /\ waitOver = [i \in Waits |-> {}]
  /\ countLog = <<>>
  /\ hist = [t \in Tasks |-> NoEvents]
  /\ crashed = FALSE

Init ==
  /\ Constructed
  /\ limits = [requests |-> MaxRequests, tasks |-> MaxTasks,
               counts |-> 0..MaxTasks, kinds |-> {ZeroTask}]

BurstInit ==
  /\ Constructed
  /\ limits = [requests |-> BurstRequests, tasks |-> BurstTasks,
               counts |-> {BurstTasks}, kinds |-> {ZeroTask}]

\* requests whose tasks differ in URL and sleep duration
ExecInit ==
  /\ Constructed
  /\ limits = [requests |-> ExecRequests, tasks |-> ExecTasks,
               counts |-> 0..ExecTasks, kinds |-> {ZeroTask, BusyTask}]

\* /run/ and /messages/ requests
StoreInit ==
  /\ Constructed
  /\ limits = [requests |-> StoreRequests, tasks |-> StoreTasks,
               counts |-> 0..StoreTasks, kinds |-> {NapTask}]

Bump(h, t, e) == [h EXCEPT ![t][e] = @ + 1]

-----------------------------------------------------------------------------
(* POST /run/ : handleRun *)

RECURSIVE Sum(_, _)
Sum(f, S) ==
  IF S = {} THEN 0
  ELSE LET x == CHOOSE y \in S : TRUE IN f[x] + Sum(f, S \ {x})

\* number of tasks the /run/ requests parsed so far ask for
Asked == Sum(runCount, Runs)

\* number of requests that have arrived so far
Issued ==
  Cardinality({r \in Runs : runPc[r] # "idle"})
  + Cardinality({i \in Waits : waitPc[i] # "idle"})
  + Cardinality({m \in Msgs : msgPc[m] # "idle"})
  + Len(countLog)

\* the next /run/ request to arrive is r
RunArrives(r) ==
  /\ Issued < limits.requests
  /\ runPc[r] = "idle"
  /\ \A q \in Runs : q < r => runPc[q] # "idle"

\* io.ReadAll and json.Unmarshal: a malformed body is answered 400
RunBad(r) ==
  /\ ~crashed
  /\ UNCHANGED storeVars
  /\ UNCHANGED <<runTask, tTask, tFetch>>
  /\ RunArrives(r)
  /\ runPc' = [runPc EXCEPT ![r] = "bad"]
  /\ UNCHANGED <<limits, messagesMu, runCount, runI, taskQueue, tStage,
                 workerVars, wgVars, counterVars, waitVars, countLog, hist,
                 crashed>>

\* a well-formed body: request.Count is any integer the body carries
RunParse(r) ==
  /\ ~crashed
  /\ UNCHANGED storeVars
  /\ UNCHANGED <<tTask, tFetch>>
  /\ RunArrives(r)
  /\ \E n \in limits.counts \cap 0..(limits.tasks - Asked),
        task \in limits.kinds :
       /\ runCount' = [runCount EXCEPT ![r] = n]
       /\ runTask' = [runTask EXCEPT ![r] = task]
       /\ runPc' = [runPc EXCEPT ![r] = "lock"]
  /\ UNCHANGED <<limits, messagesMu, runI, taskQueue, tStage, workerVars,
                 wgVars, counterVars, waitVars, countLog, hist, crashed>>

\* mutant: handleRun does not take the lock
MuNotTaken(r) == 0

\* messagesMu once handleRun's Lock() has returned: held by request r
MuAfterRunLock(r) == r

\* messagesMu.Lock()
RunLock(r) ==
  /\ ~crashed
  /\ UNCHANGED storeVars
  /\ UNCHANGED <<runTask, tTask, tFetch>>
  /\ runPc[r] = "lock"
  /\ messagesMu = 0
  /\ messagesMu' = MuAfterRunLock(r)
  /\ runI' = [runI EXCEPT ![r] = 0]
  /\ runPc' = [runPc EXCEPT ![r] = "loop"]
  /\ UNCHANGED <<limits, runCount, taskQueue, tStage, workerVars,
                 wgVars, counterVars, waitVars, countLog, hist, crashed>>

\* mutant: the loop stops one iteration early
LoopOverEarly(i, n) == i + 1 >= n

\* for i := 0; i < request.Count; i++ : the loop is over
LoopOver(i, n) == i >= n

\* a send on the buffered channel completes only while there is room
ChanCanSend(q) == Len(q) < QueueCap

ChanSend(q, t) == Append(q, t)

\* taskQueue <- request.Task ; i++
RunEnqueue(r) ==
  /\ ~crashed
  /\ UNCHANGED storeVars
  /\ UNCHANGED <<runTask, tFetch>>
  /\ runPc[r] = "loop"
  /\ ~LoopOver(runI[r], runCount[r])
  /\ ChanCanSend(taskQueue)
  /\ LET t == NumEnqueued + 1 IN
       /\ taskQueue' = ChanSend(taskQueue, t)
       /\ tStage' = [tStage EXCEPT ![t] = "queued"]
       /\ tTask' = [tTask EXCEPT ![t] = runTask[r]]
  /\ runI' = [runI EXCEPT ![r] = @ + 1]
  /\ UNCHANGED <<limits, messagesMu, runPc, runCount, workerVars,
                 wgVars, counterVars, waitVars, countLog, hist, crashed>>

\* taskQueue <- request.Task on the full channel: the sender parks until a
\* receiver takes an element and moves the sender's value into the buffer
RunBlock(r) ==
  /\ ~crashed
  /\ UNCHANGED storeVars
  /\ UNCHANGED <<runTask, tTask, tFetch>>
  /\ runPc[r] = "loop"
  /\ ~LoopOver(runI[r], runCount[r])
  /\ ~ChanCanSend(taskQueue)
  /\ runPc' = [runPc EXCEPT ![r] = "blocked"]
  /\ UNCHANGED <<limits, messagesMu, runCount, runI, taskQueue, tStage, workerVars,
                 wgVars, counterVars, waitVars, countLog, hist, crashed>>

\* loop over: 202 Accepted is written, the deferred Unlock runs
RunRespond(r) ==
  /\ ~crashed
  /\ UNCHANGED storeVars
  /\ UNCHANGED <<runTask, tTask, tFetch>>
  /\ runPc[r] = "loop"
  /\ LoopOver(runI[r], runCount[r])
  /\ messagesMu' = 0
  /\ runPc' = [runPc EXCEPT ![r] = "done"]
  /\ UNCHANGED <<limits, runCount, runI, taskQueue, tStage, workerVars,
                 wgVars, counterVars, waitVars, countLog, hist, crashed>>

-----------------------------------------------------------------------------
(* worker() *)

\* mutant: the receive takes the newest element
ChanRecvLast(q) == q[Len(q)]

\* a receive takes the element at the head of the channel's buffer
ChanRecvValue(q) == Head(q)

ChanAfterRecv(q) == Tail(q)

\* mutant: a worker receives only when no execution is running
ChanCanRecvIdle(q) == q # <<>> /\ \A t \in Tasks : tStage[t] \notin {"exec", "send"}

\* a receive on the buffered channel proceeds when an element is there
ChanCanRecv(q) == q # <<>>

\* the /run/ requests parked on the full channel (at most one: the loop of
\* handleRun runs under messagesMu)
Parked == {r \in Runs : runPc[r] = "blocked"}

\* for task := range taskQueue, no sender being parked
WorkerRecv(k) ==
  /\ ~crashed
  /\ UNCHANGED storeVars
  /\ UNCHANGED <<tTask, tFetch>>
  /\ wPc[k] = "range"
  /\ ChanCanRecv(taskQueue)
  /\ Parked = {}
  /\ LET t == ChanRecvValue(taskQueue) IN
       /\ wTask' = [wTask EXCEPT ![k] = t]
       /\ tStage' = [tStage EXCEPT ![t] = "recvd"]
       /\ hist' = Bump(hist, t, "deq")
  /\ taskQueue' = ChanAfterRecv(taskQueue)
  /\ wPc' = [wPc EXCEPT ![k] = "add"]
  /\ UNCHANGED <<runVars, wgVars, counterVars, waitVars, countLog, crashed>>

\* for task := range taskQueue with a sender parked on the full channel: the
\* receive takes the head, puts the parked sender's value at the tail and
\* wakes the sender, whose send is thereby complete
WorkerRecvWake(k) ==
  /\ ~crashed
  /\ UNCHANGED storeVars
  /\ UNCHANGED <<runTask, tFetch>>
  /\ wPc[k] = "range"
  /\ ChanCanRecv(taskQueue)
  /\ \E r \in Parked :
       LET t == ChanRecvValue(taskQueue)
           n == NumEnqueued + 1
       IN /\ wTask' = [wTask EXCEPT ![k] = t]
          /\ tStage' = [tStage EXCEPT ![t] = "recvd", ![n] = "queued"]
          /\ tTask' = [tTask EXCEPT ![n] = runTask[r]]
          /\ hist' = Bump(hist, t, "deq")
          /\ taskQueue' = ChanSend(ChanAfterRecv(taskQueue), n)
          /\ runI' = [runI EXCEPT ![r] = @ + 1]
          /\ runPc' = [runPc EXCEPT ![r] = "loop"]
  /\ wPc' = [wPc EXCEPT ![k] = "add"]
  /\ UNCHANGED <<limits, messagesMu, runCount, wgVars, counterVars, waitVars,
                 countLog, crashed>>

\* mutant: the registration is lost
WgAddLost(v, delta) == v

\* WaitGroup.Add: the counter after Add(delta)
WgAdd(v, delta) == v + delta

\* WaitGroup.Add panics when it raises the counter from zero while the
\* waiter count is not zero
WgAddMisuse(v, w, delta) == w # 0 /\ delta > 0 /\ v = delta

\* wg.Add(1)
WorkerAdd(k) ==
  /\ ~crashed
  /\ UNCHANGED storeVars
  /\ UNCHANGED <<tTask, tFetch>>
  /\ wPc[k] = "add"
  /\ ~WgAddMisuse(WgAdd(wgV, 1), wgW, 1)
  /\ wgV' = WgAdd(wgV, 1)
  /\ tStage' = [tStage EXCEPT ![wTask[k]] = "added"]
  /\ hist' = Bump(hist, wTask[k], "add")
  /\ wPc' = [wPc EXCEPT ![k] = "go"]
  /\ UNCHANGED <<runVars, taskQueue, wTask, wgW, wgSema, counterVars,
                 waitVars, countLog, crashed>>

\* wg.Add(1) adds to the counter and then panics in the worker goroutine:
\* the process dies
WorkerAddPanic(k) ==
  /\ ~crashed
  /\ UNCHANGED storeVars
  /\ UNCHANGED <<tTask, tFetch>>
  /\ wPc[k] = "add"
  /\ WgAddMisuse(WgAdd(wgV, 1), wgW, 1)
  /\ wgV' = WgAdd(wgV, 1)
  /\ tStage' = [tStage EXCEPT ![wTask[k]] = "added"]
  /\ hist' = Bump(hist, wTask[k], "add")
  /\ crashed' = TRUE
  /\ UNCHANGED <<runVars, taskQueue, workerVars, wgW, wgSema,
                 counterVars, waitVars, countLog>>

\* mutant: the goroutine signals completion without calling processTask
GoroutineSkipsTask == "send"

\* where the launched goroutine starts: the call of processTask
GoroutineStart == "exec"

\* go func(t Task){...}(task), then back to the range
WorkerGo(k) ==
  /\ ~crashed
  /\ UNCHANGED storeVars
  /\ UNCHANGED <<tTask, tFetch>>
  /\ wPc[k] = "go"
  /\ tStage' = [tStage EXCEPT ![wTask[k]] = GoroutineStart]
  /\ hist' = Bump(hist, wTask[k], "launch")
  /\ wPc' = [wPc EXCEPT ![k] = "range"]
  /\ wTask' = [wTask EXCEPT ![k] = 0]
  /\ UNCHANGED <<runVars, taskQueue, wgVars, counterVars, waitVars,
                 countLog, crashed>>

-----------------------------------------------------------------------------
(* the goroutine launched per task *)

\* processTask: http.Get is called only for a non-empty URL and returns a
\* response or an error
FetchResults(task) == IF task.url = "" THEN {"none"} ELSE {"ok", "err"}

\* mutant: the goroutine returns without signalling when the fetch failed
AfterProcessTaskErr(f) == IF f = "err" THEN "defer" ELSE "send"

\* processTask returns nothing: whatever happened in it, the goroutine goes
\* on to the send on counterChan
AfterProcessTask(f) == "send"

\* processTask(t): the fetch, if any, ends either way (an error is only
\* logged), the sleep, if any, elapses, and the call returns; the goroutine
\* goes on to counterChan <- 1
TaskReturn(t) ==
  /\ ~crashed
  /\ UNCHANGED storeVars
  /\ UNCHANGED <<tTask>>
  /\ tStage[t] = "exec"
  /\ \E f \in FetchResults(tTask[t]) :
       /\ tFetch' = [tFetch EXCEPT ![t] = f]
       /\ tStage' = [tStage EXCEPT ![t] = AfterProcessTask(f)]
  /\ hist' = Bump(hist, t, "exec")
  /\ UNCHANGED <<runVars, taskQueue, workerVars, wgVars, counterVars,
                 waitVars, countLog, crashed>>

\* mutant: counterChan has a buffer that takes the signal at any time
CounterBuffered(pc) == TRUE

\* counter() is at its receive on counterChan
CounterReady(pc) == pc = "range"

\* counterChan is unbuffered: the send of a task goroutine completes when
\* counter() receives it
CounterRecv(t) ==
  /\ ~crashed
  /\ UNCHANGED storeVars
  /\ UNCHANGED <<tTask, tFetch>>
  /\ tStage[t] = "send"
  /\ CounterReady(cPc)
  /\ cInc' = 1
  /\ cPc' = "add"
  /\ tStage' = [tStage EXCEPT ![t] = "defer"]
  /\ hist' = Bump(hist, t, "sig")
  /\ UNCHANGED <<runVars, taskQueue, workerVars, wgVars, taskCounter,
                 waitVars, countLog, crashed>>

\* mutant: -= for +=
CounterSumMinus(c, inc) == c - inc

\* taskCounter += increment
CounterSum(c, inc) == c + inc

CounterAdd ==
  /\ ~crashed
  /\ UNCHANGED storeVars
  /\ UNCHANGED <<tTask, tFetch>>
  /\ cPc = "add"
  /\ taskCounter' = CounterSum(taskCounter, cInc)
  /\ cPc' = "range"
  /\ UNCHANGED <<runVars, taskQueue, tStage, workerVars, wgVars, cInc,
                 waitVars, countLog, hist, crashed>>

\* mutant: Done is called twice per task
WgDoneTwice(v) == v - 2

\* WaitGroup.Done: the counter after Add(-1)
WgDone(v) == v - 1

\* the deferred wg.Done(): the atomic decrement.  When it brings the counter
\* to zero with waiters registered, the release follows as a second step.
TaskDone(t) ==
  /\ ~crashed
  /\ UNCHANGED storeVars
  /\ UNCHANGED <<tTask, tFetch>>
  /\ tStage[t] = "defer"
  /\ wgV' = WgDone(wgV)
  /\ tStage' = [tStage EXCEPT ![t] =
                  IF WgDone(wgV) > 0 \/ wgW = 0 THEN "fin" ELSE "release"]
  /\ hist' = Bump(hist, t, "done")
  /\ UNCHANGED <<runVars, taskQueue, workerVars, wgW, wgSema, counterVars,
                 waitVars, countLog, crashed>>

\* wg.Done() releasing the waiters: the waiter count is reset and one
\* semaphore permit is released per waiter
TaskRelease(t) ==
  /\ ~crashed
  /\ UNCHANGED storeVars
  /\ UNCHANGED <<tTask, tFetch>>
  /\ tStage[t] = "release"
  /\ wgW' = 0
  /\ wgSema' = wgSema + wgW
  /\ tStage' = [tStage EXCEPT ![t] = "fin"]
  /\ UNCHANGED <<runVars, taskQueue, workerVars, wgV, counterVars,
                 waitVars, countLog, hist, crashed>>

-----------------------------------------------------------------------------
(* GET /wait/ : waitHandler *)

\* the request arrives and the handler is about to call wg.Wait()
WaitCall(i) ==
  /\ ~crashed
  /\ UNCHANGED storeVars
  /\ UNCHANGED <<tTask, tFetch>>
  /\ Issued < limits.requests
  /\ waitPc[i] = "idle"
  /\ \A j \in Waits : j < i => waitPc[j] # "idle"
  /\ waitPc' = [waitPc EXCEPT ![i] = "wait"]
  /\ waitEnq' = [waitEnq EXCEPT ![i] = NumEnqueued]
  /\ waitOver' = [waitOver EXCEPT ![i] = {r \in Runs : runPc[r] \in {"done", "bad"}}]
  /\ UNCHANGED <<runVars, taskQueue, tStage, workerVars, wgVars, counterVars,
                 countLog, hist, crashed>>

\* mutant: Wait also looks at the intake queue
WgWaitDrained(v) == v = 0 /\ taskQueue = <<>>

\* WaitGroup.Wait: the state is loaded and Wait returns if the counter is zero
WgWaitDone(v) == v = 0

\* wg.Wait(): the counter is loaded and found zero; the handler answers 200
WaitFast(i) ==
  /\ ~crashed
  /\ UNCHANGED storeVars
  /\ UNCHANGED <<tTask, tFetch>>
  /\ waitPc[i] = "wait"
  /\ WgWaitDone(wgV)
  /\ waitPc' = [waitPc EXCEPT ![i] = "ok"]
  /\ waitEnq' = [waitEnq EXCEPT ![i] = 0]
  /\ UNCHANGED <<runVars, taskQueue, tStage, workerVars, wgVars, counterVars,
                 waitOver, countLog, hist, crashed>>

\* wg.Wait(): the counter is not zero, the caller registers as a waiter
WaitRegister(i) ==
  /\ ~crashed
  /\ UNCHANGED storeVars
  /\ UNCHANGED <<tTask, tFetch>>
  /\ waitPc[i] = "wait"
  /\ ~WgWaitDone(wgV)
  /\ wgW' = wgW + 1
  /\ waitPc' = [waitPc EXCEPT ![i] = "sem"]
  /\ UNCHANGED <<runVars, taskQueue, tStage, workerVars, wgV, wgSema,
                 counterVars, waitEnq, waitOver, countLog, hist, crashed>>

\* the semaphore is acquired
WaitWake(i) ==
  /\ ~crashed
  /\ UNCHANGED storeVars
  /\ UNCHANGED <<tTask, tFetch>>
  /\ waitPc[i] = "sem"
  /\ wgSema > 0
  /\ wgSema' = wgSema - 1
  /\ waitPc' = [waitPc EXCEPT ![i] = "woke"]
  /\ UNCHANGED <<runVars, taskQueue, tStage, workerVars, wgV, wgW,
                 counterVars, waitEnq, waitOver, countLog, hist, crashed>>

\* what the woken waiter checks: the whole WaitGroup state is zero
WgIdle(v, w) == v = 0 /\ w = 0

\* the woken waiter finds the WaitGroup state zero and returns; 200
WaitSlow(i) ==
  /\ ~crashed
  /\ UNCHANGED storeVars
  /\ UNCHANGED <<tTask, tFetch>>
  /\ waitPc[i] = "woke"
  /\ WgIdle(wgV, wgW)
  /\ waitPc' = [waitPc EXCEPT ![i] = "ok"]
  /\ waitEnq' = [waitEnq EXCEPT ![i] = 0]
  /\ UNCHANGED <<runVars, taskQueue, tStage, workerVars, wgVars, counterVars,
                 waitOver, countLog, hist, crashed>>

\* the woken waiter finds the WaitGroup reused and panics; net/http recovers
\* the panic and the request gets no response
WaitPanic(i) ==
  /\ ~crashed
  /\ UNCHANGED storeVars
  /\ UNCHANGED <<tTask, tFetch>>
  /\ waitPc[i] = "woke"
  /\ ~WgIdle(wgV, wgW)
  /\ waitPc' = [waitPc EXCEPT ![i] = "panic"]
  /\ waitEnq' = [waitEnq EXCEPT ![i] = 0]
  /\ UNCHANGED <<runVars, taskQueue, tStage, workerVars, wgVars, counterVars,
                 waitOver, countLog, hist, crashed>>

-----------------------------------------------------------------------------
(* GET /count/ : countHandler *)

\* the handler loads taskCounter (a word-sized load, unsynchronised with
\* counter(): it sees whatever counter() has stored so far)
CountRead ==
  /\ ~crashed
  /\ UNCHANGED storeVars
  /\ UNCHANGED <<tTask, tFetch>>
  /\ Issued < limits.requests
  /\ countLog' = Append(countLog, taskCounter)
  /\ UNCHANGED <<runVars, taskQueue, tStage, workerVars, wgVars, counterVars,
                 waitVars, hist, crashed>>

-----------------------------------------------------------------------------
(* /messages/ : messageHandler *)

\* the next /messages/ request to arrive is m
MsgArrives(m) ==
  /\ Issued < limits.requests
  /\ msgPc[m] = "idle"
  /\ \A q \in Msgs : q < m => msgPc[q] # "idle"

\* strconv.Atoi fails on the path of a GET or DELETE, or json.Unmarshal on
\* the body of a POST: 400, before the lock is asked for
MsgBad(m) ==
  /\ ~crashed
  /\ MsgArrives(m)
  /\ \E op \in {"GET", "POST", "DELETE"} :
       lastResp' = [op |-> op, id |-> 0, code |-> 400, body |-> NoReq]
  /\ msgPc' = [msgPc EXCEPT ![m] = "done"]
  /\ UNCHANGED <<runVars, taskQueue, tStage, tTask, tFetch, workerVars, wgVars,
                 counterVars, waitVars, countLog, hist, crashed,
                 messages, nextID, msgReq, created, deleted>>

\* a well-formed request: the id of the path, or the id and text of the body
MsgParse(m) ==
  /\ ~crashed
  /\ MsgArrives(m)
  /\ \E op \in {"GET", "POST", "DELETE"}, id \in 1..MsgIds, text \in Texts :
       msgReq' = [msgReq EXCEPT ![m] =
                    [op |-> op, id |-> id, text |-> IF op = "POST" THEN text ELSE ""]]
  /\ msgPc' = [msgPc EXCEPT ![m] = "lock"]
  /\ UNCHANGED <<runVars, taskQueue, tStage, tTask, tFetch, workerVars, wgVars,
                 counterVars, waitVars, countLog, hist, crashed,
                 messages, nextID, lastResp, created, deleted>>

\* messagesMu.Lock()
MsgLock(m) ==
  /\ ~crashed
  /\ msgPc[m] = "lock"
  /\ messagesMu = 0
  /\ messagesMu' = -m
  /\ msgPc' = [msgPc EXCEPT ![m] = "in"]
  /\ UNCHANGED <<limits, runPc, runCount, runI, runTask, taskQueue, tStage, tTask,
                 tFetch, workerVars, wgVars, counterVars, waitVars, countLog,
                 hist, crashed, messages, nextID, msgReq, lastResp, created,
                 deleted>>

\* what the handlers leave unchanged between Lock() and the deferred Unlock()
MsgFrame ==
  UNCHANGED <<limits, runPc, runCount, runI, runTask, taskQueue, tStage, tTask,
              tFetch, workerVars, wgVars, counterVars, waitVars, countLog, hist,
              crashed>>

\* the handler of request m answers and its deferred Unlock() runs
MsgEnd(m) ==
  /\ messagesMu' = 0
  /\ msgPc' = [msgPc EXCEPT ![m] = "done"]
  /\ msgReq' = [msgReq EXCEPT ![m] = NoReq]

\* mutant: the next id is taken from the size of the map
NewIdByCount(next, msgs) == Cardinality(DOMAIN msgs) + 1

\* m.ID = nextID
NewId(next, msgs) == next

\* messages[id] = rec
MapPut(msgs, id, rec) == [x \in DOMAIN msgs \cup {id} |-> IF x = id THEN rec ELSE msgs[x]]

\* delete(messages, id)
MapDelete(msgs, id) == [x \in DOMAIN msgs \ {id} |-> msgs[x]]

\* handlePostMessage under the lock: the id of the body is overwritten with
\* nextID, nextID++, the record is stored; 201 with the record
MsgPost(m) ==
  /\ ~crashed
  /\ msgPc[m] = "in"
  /\ msgReq[m].op = "POST"
  /\ LET rec == [id |-> NewId(nextID, messages), text |-> msgReq[m].text] IN
       /\ messages' = MapPut(messages, rec.id, rec)
       /\ created' = Append(created, rec)
       /\ lastResp' = [op |-> "POST", id |-> rec.id, code |-> 201, body |-> rec]
  /\ nextID' = nextID + 1
  /\ MsgEnd(m)
  /\ MsgFrame
  /\ UNCHANGED deleted

\* handleGetMessage under the lock: 200 with the record, or 404
MsgGet(m) ==
  /\ ~crashed
  /\ msgPc[m] = "in"
  /\ msgReq[m].op = "GET"
  /\ LET id == msgReq[m].id IN
       lastResp' = IF id \in DOMAIN messages
                   THEN [op |-> "GET", id |-> id, code |-> 200, body |-> messages[id]]
                   ELSE [op |-> "GET", id |-> id, code |-> 404, body |-> NoReq]
  /\ MsgEnd(m)
  /\ MsgFrame
  /\ UNCHANGED <<messages, nextID, created, deleted>>

\* handleDeleteMessage under the lock: 404, or the record is removed and 200
MsgDelete(m) ==
  /\ ~crashed
  /\ msgPc[m] = "in"
  /\ msgReq[m].op = "DELETE"
  /\ LET id == msgReq[m].id IN
       IF id \in DOMAIN messages
       THEN /\ messages' = MapDelete(messages, id)
            /\ deleted' = deleted \cup {id}
            /\ lastResp' = [op |-> "DELETE", id |-> id, code |-> 200, body |-> NoReq]
       ELSE /\ lastResp' = [op |-> "DELETE", id |-> id, code |-> 404, body |-> NoReq]
            /\ UNCHANGED <<messages, deleted>>
  /\ MsgEnd(m)
  /\ MsgFrame
  /\ UNCHANGED <<nextID, created>>

-----------------------------------------------------------------------------
RunStep(r) == RunLock(r) \/ RunEnqueue(r) \/ RunBlock(r) \/ RunRespond(r)

WorkerStep(k) ==
  \/ WorkerRecv(k) \/ WorkerRecvWake(k)
  \/ WorkerAdd(k) \/ WorkerAddPanic(k) \/ WorkerGo(k)

TaskStep(t) == TaskReturn(t) \/ TaskDone(t) \/ TaskRelease(t)

CounterStep == (\E t \in Tasks : CounterRecv(t)) \/ CounterAdd

WaitStep(i) == WaitFast(i) \/ WaitRegister(i) \/ WaitWake(i) \/ WaitSlow(i) \/ WaitPanic(i)

Next ==
  \/ \E r \in Runs : RunBad(r)
  \/ \E r \in Runs : RunParse(r)
  \/ \E r \in Runs : RunLock(r)
  \/ \E r \in Runs : RunEnqueue(r)
  \/ \E r \in Runs : RunBlock(r)
  \/ \E r \in Runs : RunRespond(r)
  \/ \E k \in Workers : WorkerRecv(k)
  \/ \E k \in Workers : WorkerRecvWake(k)
  \/ \E k \in Workers : WorkerAdd(k)
  \/ \E k \in Workers : WorkerAddPanic(k)
  \/ \E k \in Workers : WorkerGo(k)
  \/ \E t \in Tasks : TaskReturn(t)
  \/ \E t \in Tasks : CounterRecv(t)
  \/ CounterAdd
  \/ \E t \in Tasks : TaskDone(t)
  \/ \E t \in Tasks : TaskRelease(t)
  \/ \E i \in Waits : WaitCall(i)
  \/ \E i \in Waits : WaitFast(i)
  \/ \E i \in Waits : WaitRegister(i)
  \/ \E i \in Waits : WaitWake(i)
  \/ \E i \in Waits : WaitSlow(i)
  \/ \E i \in Waits : WaitPanic(i)
  \/ CountRead

Spec == Init /\ [][Next]_vars

\* the Go scheduler runs every goroutine that can take a step: the handlers
\* of requests that have arrived, the workers, the task goroutines and
\* counter().  The arrival of requests is the environment's choice.
Fairness ==
  /\ \A r \in Runs : WF_vars(RunStep(r))
  /\ \A k \in Workers : WF_vars(WorkerStep(k))
  /\ \A t \in Tasks : WF_vars(TaskStep(t))
  /\ WF_vars(CounterStep)
  /\ \A i \in Waits : WF_vars(WaitStep(i))

FairSpec == Spec /\ Fairness

\* the same program under a burst of tasks
BurstSpec == BurstInit /\ [][Next]_vars

BurstFairSpec == BurstSpec /\ Fairness

\* the program when the environment issues /run/ and /messages/ requests and
\* no /wait/ or /count/: the WaitGroup never has a waiter
StoreNext ==
  \/ \E r \in Runs : RunBad(r)
  \/ \E r \in Runs : RunParse(r)
  \/ \E r \in Runs : RunLock(r)
  \/ \E r \in Runs : RunEnqueue(r)
  \/ \E r \in Runs : RunBlock(r)
  \/ \E r \in Runs : RunRespond(r)
  \/ \E k \in Workers : WorkerRecv(k)
  \/ \E k \in Workers : WorkerRecvWake(k)
  \/ \E k \in Workers : WorkerAdd(k)
  \/ \E k \in Workers : WorkerGo(k)
  \/ \E t \in Tasks : TaskReturn(t)
  \/ \E t \in Tasks : CounterRecv(t)
  \/ CounterAdd
  \/ \E t \in Tasks : TaskDone(t)
  \/ \E m \in Msgs : MsgBad(m)
  \/ \E m \in Msgs : MsgParse(m)
  \/ \E m \in Msgs : MsgLock(m)
  \/ \E m \in Msgs : MsgPost(m)
  \/ \E m \in Msgs : MsgGet(m)
  \/ \E m \in Msgs : MsgDelete(m)

StoreSpec == StoreInit /\ [][StoreNext]_vars

\* the same program fed tasks of every kind
ExecSpec == ExecInit /\ [][Next]_vars

ExecFairSpec == ExecSpec /\ Fairness
-----------------------------------------------------------------------------
(* Vocabulary of the properties *)

\* still sitting in the intake queue, or processTask still running
Pending(t) == tStage[t] \in {"queued", "exec"}

\* a wait() has been called and has neither returned nor panicked
Waiting(i) == waitPc[i] \in {"wait", "sem", "woke"}

\* the tasks wg.Add(1) has been called for
Registered == {t \in Tasks : tStage[t] \in {"added", "exec", "send", "defer", "release", "fin"}}

\* the tasks whose processTask call has returned
Executed == {t \in Tasks : tStage[t] \in {"send", "defer", "release", "fin"}}

\* the tasks whose goroutine has called wg.Done()
Deregistered == {t \in Tasks : tStage[t] \in {"release", "fin"}}

\* the tasks a worker has received from the queue
Dequeued == {t \in Tasks : tStage[t] \notin {"none", "queued"}}

Once == [deq |-> 1, add |-> 1, launch |-> 1, exec |-> 1, sig |-> 1, done |-> 1]

-----------------------------------------------------------------------------
(* C1 *)

\* the step in which wait request i gets its 200
WaitReturns(i) == waitPc[i] # "ok" /\ waitPc'[i] = "ok"

\* C1: whenever a wait() returns, no task whose enqueue completed before
\* that wait() was called is still in the intake queue or still executing.
C1_WaitMeansDrained ==
  [][\A i \in Waits :
       WaitReturns(i) => \A t \in 1..waitEnq[i] : ~Pending(t)']_vars

-----------------------------------------------------------------------------
(* C4 *)

\* r is the only /run/ request that has arrived
OnlyRun(r) == \A q \in Runs \ {r} : runPc[q] = "idle"

\* a /count/ read taken when the single /run/ r had been answered 202, then
\* a /wait/ was called and has returned
ReadAfterDrain(r) ==
  /\ countLog' # countLog
  /\ OnlyRun(r)
  /\ runPc[r] = "done"
  /\ \E i \in Waits : waitPc[i] = "ok" /\ r \in waitOver[i]

\* C4: after a POST /run/ with count N has responded, a GET /wait/ was called
\* and returned, and no other /run/ was issued, a GET /count/ reports the
\* previous total (zero, r being the first /run/) plus N.
C4_CountAfterWait ==
  [][\A r \in Runs :
       ReadAfterDrain(r) => countLog'[Len(countLog')] = runCount[r]]_vars

-----------------------------------------------------------------------------
(* C6 *)

\* C6: outstanding-count is never negative, and it is zero only when no
\* task execution is in flight (launched and processTask not yet returned).
C6_CounterCoversExecutions ==
  /\ wgV >= 0
  /\ wgV = 0 => \A t \in Tasks : tStage[t] # "exec"

\* the counter is back at zero after work was done, with more work queued
C6_Witness ==
  /\ wgV = 0
  /\ \E t \in Tasks : tStage[t] = "fin"
  /\ \E t \in Tasks : tStage[t] = "queued"

-----------------------------------------------------------------------------
(* C7 *)

\* C7 as stated: outstanding-count = tasks dispatched - processTask calls
\* returned.
C7_Original == wgV = Cardinality(Registered) - Cardinality(Executed)

\* C7 amended: outstanding-count = tasks registered with add(1) - tasks whose
\* goroutine has called done(); done() runs only after processTask returned
\* and counter() took the completion signal, so the count is never below
\* dispatched - returned.
C7_Amended ==
  /\ wgV = Cardinality(Registered) - Cardinality(Deregistered)
  /\ Deregistered \subseteq Executed
  /\ wgV >= Cardinality(Registered) - Cardinality(Executed)

\* an execution has returned and is still counted: it waits for counter()
C7_Witness ==
  /\ \E t \in Tasks : tStage[t] = "send"
  /\ \E t \in Tasks : tStage[t] = "fin"
  /\ wgV > Cardinality(Registered) - Cardinality(Executed)

-----------------------------------------------------------------------------
(* C9 *)

\* C9: tasks are dequeued in the order their enqueues completed (the order
\* of their numbers): a task is dequeued only after every earlier one, and
\* the queue holds them in that order.
C9_Fifo ==
  /\ \A a, b \in Tasks : a < b /\ b \in Dequeued => a \in Dequeued
  /\ \A j, k \in 1..Len(taskQueue) : j < k => taskQueue[j] < taskQueue[k]

\* two workers have dequeued concurrently and a third task is queued
C9_Witness ==
  /\ \A k \in Workers : wPc[k] = "add"
  /\ wTask[1] # wTask[2]
  /\ taskQueue # <<>>

-----------------------------------------------------------------------------
(* C2 *)

\* C2: a wait() called when N tasks had been enqueued, with no enqueue
\* happening afterwards, eventually returns, and the outstanding-count is
\* zero in the state in which it returns.
C2_WaitEventuallyReturns ==
  /\ \A i \in Waits :
       (Waiting(i) /\ waitEnq[i] = NumEnqueued)
         ~> (waitPc[i] = "ok" \/ (Waiting(i) /\ waitEnq[i] < NumEnqueued))
  /\ [][\A i \in Waits : WaitReturns(i) => wgV' = 0]_vars

-----------------------------------------------------------------------------
(* C3 *)

\* C3: Completed-total never exceeds the number of tasks enqueued, and once
\* the enqueueing is over it eventually equals that number and stays there.
C3_NoLostCompletion ==
  /\ [](taskCounter <= NumEnqueued)
  /\ <>[](taskCounter = NumEnqueued)

-----------------------------------------------------------------------------
(* C5 *)

\* C5: every enqueued task is dequeued, registered with add(1), launched,
\* executed, signalled to the aggregator and deregistered with done(), each
\* exactly once.
C5_ExactlyOnce ==
  /\ [](\A t \in Tasks : \A e \in DOMAIN Once : hist[t][e] <= 1)
  /\ \A t \in Tasks : (tStage[t] = "queued") ~> (hist[t] = Once)

-----------------------------------------------------------------------------
(* C8 *)

\* C8: every step leaves Completed-total unchanged or raises it by one, and
\* of any two /count/ reads the later never returns less than the earlier.
C8_Monotone ==
  [][/\ taskCounter' \in {taskCounter, taskCounter + 1}
     /\ \A j \in 1..(Len(countLog') - 1) : countLog'[j] <= countLog'[j + 1]]_vars

\* two reads have been answered, the later with a larger total
C8_Witness == Len(countLog) >= 2 /\ countLog[1] < countLog[2]

-----------------------------------------------------------------------------
(* C10 *)

\* C10: the queue never holds more than its capacity; an enqueue on the full
\* queue completes only in a step in which a worker dequeues; the task of a
\* send parked on the full queue is eventually enqueued; every completed
\* send put exactly one task in the queue.
C10_Backpressure ==
  /\ [](Len(taskQueue) <= QueueCap)
  /\ [](NumEnqueued = Sum(runI, Runs))
  /\ [][Len(taskQueue) = QueueCap /\ NumEnqueued' # NumEnqueued
         => Dequeued' # Dequeued]_vars
  /\ \A r \in Runs : (runPc[r] = "blocked") ~> (runPc[r] # "blocked")

-----------------------------------------------------------------------------
(* C11 *)

-----------------------------------------------------------------------------
(* C12 *)

\* the wait() callers asleep on the WaitGroup's semaphore
Blocked == {i \in Waits : waitPc[i] = "sem"}

\* C12: when several wait() callers are blocked and outstanding-count reaches
\* zero, every one of them eventually returns: none stays blocked and none is
\* lost to a panic.
C12_AllWaitersReleased ==
  (Cardinality(Blocked) >= 2 /\ wgV = 0)
    ~> (\A i \in Waits : waitPc[i] \in {"idle", "wait", "ok"})

-----------------------------------------------------------------------------
(* C13 *)

\* the tasks whose execution a worker has launched
Launched == {t \in Tasks : hist[t].launch > 0}

-----------------------------------------------------------------------------
(* C14 *)

\* the step in which /run/ request r is answered 400
RunRejected(r) == runPc[r] # "bad" /\ runPc'[r] = "bad"

\* C14: a malformed POST /run/ is answered 400 and changes nothing: no task
\* is enqueued by it then or later, and the intake queue, outstanding-count,
\* Completed-total and the record store stay as they are.  A well-formed
\* POST /run/ with count N never enqueues more than N tasks, each a copy of
\* its task, and is answered 202 only when it has enqueued exactly N.
C14_RunAnswers ==
  /\ [][\A r \in Runs :
          RunRejected(r) =>
            UNCHANGED <<taskQueue, tStage, wgV, taskCounter, messages, nextID>>]_vars
  /\ [](\A r \in Runs : runPc[r] = "bad" => runI[r] = 0 /\ runCount[r] = 0)
  /\ [](\A r \in Runs :
          /\ runI[r] <= runCount[r]
          /\ runPc[r] = "done" => runI[r] = runCount[r])
  /\ [](NumEnqueued = Sum(runI, Runs))
  /\ [][\A t \in Tasks :
          tStage[t] = "none" /\ tStage'[t] # "none" =>
            \E r \in Runs : runI'[r] = runI[r] + 1 /\ tTask'[t] = runTask[r]]_vars

\* with a record stored, one /run/ was answered 400 and another one 202
\* after enqueueing more tasks than the queue holds
C14_Witness ==
  /\ DOMAIN messages # {}
  /\ \E r, q \in Runs :
       /\ runPc[r] = "bad"
       /\ runPc[q] = "done" /\ runCount[q] > QueueCap /\ runI[q] = runCount[q]

-----------------------------------------------------------------------------
(* C15 *)

\* the ids POST /messages/ has assigned so far
CreatedIds == {created[j].id : j \in 1..Len(created)}

\* the record POST stored under id
CreatedAs(id) == created[CHOOSE j \in 1..Len(created) : created[j].id = id]

\* the step in which the handler of /messages/ request m, of method op,
\* answers from under the lock
MsgAnswers(m, op) == msgPc[m] = "in" /\ msgPc'[m] = "done" /\ msgReq[m].op = op

\* C15: every POST /messages/ assigns an id greater than every id assigned
\* before and answers 201 with the record; a GET of an id that was created
\* and not deleted answers 200 with the record stored under it; GET and
\* DELETE of a deleted id answer 404.
C15_RecordStore ==
  /\ [][\A m \in Msgs :
          MsgAnswers(m, "POST") =>
            /\ Len(created') = Len(created) + 1
            /\ SubSeq(created', 1, Len(created)) = created
            /\ \A id \in CreatedIds : created'[Len(created')].id > id
            /\ created'[Len(created')].text = msgReq[m].text
            /\ lastResp'.code = 201 /\ lastResp'.body = created'[Len(created')]]_vars
  /\ [][\A m \in Msgs :
          MsgAnswers(m, "GET") /\ msgReq[m].id \in CreatedIds \ deleted =>
            lastResp'.code = 200 /\ lastResp'.body = CreatedAs(msgReq[m].id)]_vars
  /\ [][\A m \in Msgs :
          (MsgAnswers(m, "GET") \/ MsgAnswers(m, "DELETE"))
            /\ msgReq[m].id \in deleted =>
              lastResp'.code = 404]_vars

\* a record was deleted and the POST answered last got a greater id
C15_Witness ==
  /\ deleted # {}
  /\ lastResp.op = "POST"
  /\ \A id \in deleted : lastResp.id > id
  /\ Len(created) >= 2

-----------------------------------------------------------------------------
(* C16 *)

\* how far a task has come: not enqueued, Queued, Dispatched (dequeued, then
\* registered), Executing, Finished (returned, signalled, deregistered)
StageRank(st) ==
  CASE st = "none" -> 0
    [] st = "queued" -> 1
    [] st = "recvd" -> 2
    [] st = "added" -> 3
    [] st = "exec" -> 4
    [] st = "send" -> 5
    [] st = "defer" -> 6
    [] st = "release" -> 7
    [] st = "fin" -> 8

\* C16: for every task, add(1) comes before the launch of its execution,
\* done() and the aggregator signal come only after processTask has
\* returned, and the task's state never goes back.
C16_TaskOrder ==
  /\ [](\A t \in Tasks :
          /\ hist[t].launch <= hist[t].add
          /\ hist[t].exec <= hist[t].launch
          /\ hist[t].sig <= hist[t].exec
          /\ hist[t].done <= hist[t].exec)
  /\ [][\A t \in Tasks : StageRank(tStage'[t]) >= StageRank(tStage[t])]_vars

\* one task has gone all the way while another is executing
C16_Witness ==
  /\ \E t \in Tasks : tStage[t] = "fin" /\ hist[t] = Once
  /\ \E t \in Tasks : tStage[t] = "exec" /\ hist[t].add = 1 /\ hist[t].launch = 1

-----------------------------------------------------------------------------
(* C17 *)

\* the tasks whose execution goroutine is running processTask or is blocked
\* in the send of its completion signal
Executing == {t \in Tasks : tStage[t] \in {"exec", "send"}}

\* C17: a worker never waits for an execution it launched: while the process
\* runs, a worker holding a registered task can launch it and a worker back
\* at the range can dequeue whenever the queue holds a task, whatever the
\* executions in flight; the executions in flight are bounded only by the
\* number of tasks dequeued.
C17_WorkerNeverWaits ==
  /\ \A k \in Workers :
       ~crashed =>
         /\ wPc[k] = "go" => ENABLED WorkerGo(k)
         /\ wPc[k] = "range" /\ taskQueue # <<>> =>
              ENABLED (WorkerRecv(k) \/ WorkerRecvWake(k))
  /\ Executing \subseteq Dequeued

\* more executions are in flight than there are workers, and a worker is
\* free to dequeue
C17_Witness ==
  /\ Cardinality(Executing) > NumWorkers
  /\ \E t \in Tasks : tStage[t] = "send"
  /\ \E k \in Workers : wPc[k] = "range"

-----------------------------------------------------------------------------
(* C18 *)

\* a worker's add(1) takes effect in this step
AddCalled == \E t \in Tasks : hist'[t].add > hist[t].add

\* C18: no worker calls add(1) after a wait() has observed the counter at
\* zero, nor while a wait() is in progress with the counter at zero.
C18_SingleDrainEpoch ==
  [][AddCalled =>
       /\ \A i \in Waits : waitPc[i] # "ok"
       /\ \A i \in Waits : Waiting(i) => wgV # 0]_vars

-----------------------------------------------------------------------------
(* C19 *)

\* number of done() calls performed so far
DoneCalls == Sum([t \in Tasks |-> hist[t].done], Tasks)

\* the finished executions blocked in the send of their completion signal
AwaitingAggregator == {t \in Tasks : tStage[t] = "send"}

\* C19: an execution calls done() only after counter() has received its
\* signal, so the done() calls never exceed Completed-total by more than
\* one, and an execution blocked waiting for counter() is still counted in
\* outstanding-count.
C19_AggregatorLag ==
  /\ \A t \in Tasks : hist[t].done <= hist[t].sig
  /\ DoneCalls <= taskCounter + 1
  /\ wgV >= Cardinality(AwaitingAggregator)
  /\ AwaitingAggregator \subseteq Registered \ Deregistered

\* done() has run once more than Completed-total shows, and a returned
\* execution is waiting for counter()
C19_Witness ==
  /\ DoneCalls = taskCounter + 1
  /\ AwaitingAggregator # {}

-----------------------------------------------------------------------------
(* C20 *)

\* the /run/ requests inside their enqueue loop, parked on the full queue or
\* not
Enqueuing == {r \in Runs : runPc[r] \in {"loop", "blocked"}}

\* the /messages/ requests between Lock() and Unlock()
InStore == {m \in Msgs : msgPc[m] = "in"}

\* C20: a /run/ holds messagesMu for its whole enqueue loop: at most one
\* /run/ is enqueuing at any time and it holds the lock; meanwhile, also
\* while it is parked on the full queue, no record create, read or delete is
\* under way or can start, and no other /run/ adds a task; a parked request
\* is released only by a worker's dequeue, and some worker can always take a
\* step towards it, none of them needing the lock.
C20_RunHoldsStoreLock ==
  /\ [](Cardinality(Enqueuing) <= 1)
  /\ [](\A r \in Enqueuing :
          /\ messagesMu = r
          /\ InStore = {}
          /\ \A m \in Msgs : ~ENABLED MsgLock(m)
          /\ \A q \in Runs \ {r} : ~ENABLED RunLock(q))
  /\ [][\A r \in Enqueuing : UNCHANGED <<messages, nextID>>]_vars
  /\ [][\A r \in Runs : runI'[r] # runI[r] => r \in Enqueuing]_vars
  /\ [][\A r \in Runs :
          runPc[r] = "blocked" /\ runPc'[r] # "blocked" => Dequeued' # Dequeued]_vars
  /\ [](\A r \in Runs :
          runPc[r] = "blocked" =>
            \E k \in Workers :
              ENABLED (WorkerRecvWake(k) \/ WorkerAdd(k) \/ WorkerGo(k)))

\* a /run/ is parked on the full queue holding the lock while a /messages/
\* request and another /run/ wait for it
C20_Witness ==
  /\ \E r \in Runs : runPc[r] = "blocked" /\ messagesMu = r
  /\ \E m \in Msgs : msgPc[m] = "lock"
  /\ \E q \in Runs : runPc[q] = "lock"
  /\ DOMAIN messages = {}

=============================================================================
